---- MODULE Spec2Model ----
(***************************************************************************)
(* KMeansFilterPruning.run_pruning_for_conv2d_layer                         *)
(* (src/filter_pruning/kmeans_pruning.py), one invocation on one Conv2D     *)
(* layer, as a state machine that follows the method line by line.          *)
(*                                                                          *)
(* Channel indices are 0-based as in the code (np.arange); TLA+ sequences   *)
(* are 1-based, so row c of the flattened matrix is element c + 1.          *)
(***************************************************************************)
EXTENDS Integers, Sequences, FiniteSets

VARIABLES
    layer_weights,        \* the layer's kernel: [shape, data], data flat in C order
    target,               \* what the keep/prune split helper will answer
    pc,                   \* position in the method
    layer_weight_mtx,     \* local: layer.get_weights()[0], the array the rows are a view of
    mtx_buffer,           \* the memory that array occupies: its own, or the kernel's
    rng,                  \* numpy's global random state, as the draws made from it
    nb_channels,          \* local: last entry of the shape
    nb_of_clusters,       \* local: K
    reshaped,             \* local: layer_weight_mtx_reshaped, a list of rows
    cluster_centers,      \* kmeans.cluster_centers_, coordinates as fractions <<num, den>>
    closest,              \* closest_point_to_cluster_center_indices
    keep,                 \* channel_indices_to_keep (list)
    prune,                \* channel_indices_to_prune (list)
    stdout,               \* lines printed
    jobs,                 \* the surgeon's job list
    ret,                  \* return value
    error                 \* where an exception left the method, "none" otherwise

vars == <<layer_weights, target, pc, layer_weight_mtx, mtx_buffer, rng,
          nb_channels,
          nb_of_clusters, reshaped, cluster_centers, closest, keep, prune,
          stdout, jobs, ret, error>>

-----------------------------------------------------------------------------
(* Bounds and input domains *)

MaxN == 3

RECURSIVE Product(_)
Product(s) == IF s = <<>> THEN 1 ELSE Head(s) * Product(Tail(s))

WeightVals == {0, 4}
FuzzVals == {0, 1}

Shapes4D == {<<1, 1, 1, n>> : n \in 1..MaxN} \cup {<<1, 1, 2, 2>>}
ShapesNot4D == {<<1, 2>>, <<1, 1, 1, 1, 2>>}

\* the weight tensors a layer may hold: every content of the 4-D shapes, and
\* one tensor for each shape that is not 4-D
Tensors ==
    UNION {{[shape |-> s, data |-> d] : d \in [1..Product(s) -> WeightVals]} :
              s \in Shapes4D}
    \cup {[shape |-> s, data |-> [i \in 1..Product(s) |-> 0]] :
              s \in ShapesNot4D}

None == "None"
LayerName == "conv2d"

-----------------------------------------------------------------------------
(* Helpers on sequences and sets *)

Range(s) == {s[i] : i \in 1..Len(s)}

Min(S) == CHOOSE x \in S : \A y \in S : x <= y

\* list(set_of_small_ints): CPython places an int at slot hash & mask and
\* iterates by slot; for values below the minimal table size 8 that is
\* ascending order.
RECURSIVE SetToList(_)
SetToList(S) == IF S = {} THEN <<>>
                ELSE LET m == Min(S) IN <<m>> \o SetToList(S \ {m})

Permutations(s) ==
    {p \in [1..Len(s) -> Range(s)] :
        \A i, j \in 1..Len(s) : i # j => p[i] # p[j]}

\* s[:k] of Python
SliceTo(s, k) ==
    IF k >= 0 THEN SubSeq(s, 1, IF k < Len(s) THEN k ELSE Len(s))
    ELSE SubSeq(s, 1, IF Len(s) + k > 0 THEN Len(s) + k ELSE 0)

-----------------------------------------------------------------------------
(* Pure steps of the method *)

\* the keep/prune split helper of the base class: its first result is the
\* target count K that the caller's policy supplies for a layer of n channels
CalculateNumberOfChannelsToKeep(k, n) == k

\* x.transpose(3, 0, 1, 2).reshape(nb_channels, -1): element (h, w, i, o) of
\* a C-ordered array lies at flat offset f * O + o with f = (h*W + w)*I + i,
\* and goes to row o, column f.
Reshape(w, n) ==
    LET O == w.shape[4]
        F == Product(w.shape) \div n
    IN [o \in 1..n |-> [f \in 1..F |-> w.data[(f - 1) * O + (o - 1) + 1]]]

\* the base class's fuzz: a small perturbation added in place to the rows
ApplyFuzz(x, fz) ==
    [r \in 1..Len(x) |-> [f \in 1..Len(x[r]) |-> x[r][f] + fz[r][f]]]

FuzzChoices(x) ==
    IF Len(x) = 0 THEN {<<>>}
    ELSE [1..Len(x) -> [1..Len(x[1]) -> FuzzVals]]

\* the in-place fuzz seen through the view: row o, column f of the flattened
\* matrix is the element at flat offset f * O + o of the array it was made of
WriteThrough(w, x) ==
    LET O == w.shape[4]
    IN [w EXCEPT !.data =
           [i \in 1..Len(w.data) |-> x[((i - 1) % O) + 1][((i - 1) \div O) + 1]]]

RECURSIVE GCD(_, _)
GCD(a, b) == IF b = 0 THEN a ELSE GCD(b, a % b)

\* the fraction a / b in lowest terms, a >= 0 and b > 0
Frac(a, b) == LET g == GCD(a, b) IN <<a \div g, b \div g>>

RECURSIVE ColumnSum(_, _, _)
ColumnSum(X, S, f) ==
    IF S = {} THEN 0
    ELSE LET r == CHOOSE q \in S : TRUE
         IN X[r][f] + ColumnSum(X, S \ {r}, f)

\* the rows that a labelling puts into cluster k
Members(labels, k) == {r \in DOMAIN labels : labels[r] = k}

EmptyClusters(labels, k) == {c \in 1..k : Members(labels, c) = {}}

\* the centroid of a non-empty cluster: the mean of its rows
Mean(X, S) == [f \in 1..Len(X[1]) |-> Frac(ColumnSum(X, S, f), Cardinality(S))]

RowAsCentre(X, r) == [f \in 1..Len(X[1]) |-> <<X[r][f], 1>>]

\* the centres k-means can leave for a labelling of the rows: the mean of
\* each non-empty cluster, and for an empty cluster the row it is moved onto
Centres(X, k, labels, moved) ==
    [c \in 1..k |->
        IF Members(labels, c) = {} THEN RowAsCentre(X, moved[c])
        ELSE Mean(X, Members(labels, c))]

RECURSIVE DenProduct(_)
DenProduct(c) == IF c = <<>> THEN 1 ELSE Head(c)[2] * DenProduct(Tail(c))

\* squared euclidean distance of centre c and row x, times the square of the
\* product D of the centre's denominators (the same factor for every row)
RECURSIVE ScaledSqDist(_, _, _)
ScaledSqDist(c, x, D) ==
    IF c = <<>> THEN 0
    ELSE LET d == Head(c)[1] * (D \div Head(c)[2]) - Head(x) * D
         IN d * d + ScaledSqDist(Tail(c), Tail(x), D)

SqDist(c, x) == ScaledSqDist(c, x, DenProduct(c))

\* metrics.pairwise_distances_argmin(centers, X): for each centre the index
\* (0-based) of the nearest row, the first one on a tie
PairwiseDistancesArgmin(centers, X) ==
    [k \in 1..Len(centers) |->
        Min({r \in 1..Len(X) :
               \A q \in 1..Len(X) :
                  SqDist(centers[k], X[r]) <= SqDist(centers[k], X[q])}) - 1]

\* a universe that misses the last channel
ChannelIndicesShort(X) == 0..(Len(X) - 2)

\* line 48: set(np.arange(len(X)))
ChannelIndices(X) == 0..(Len(X) - 1)

\* line 49: set(closest_point_to_cluster_center_indices)
KeepSet(cl) == Range(cl)

\* a prune list from which the representatives are not taken out
InitialPruneListAll(X, cl) == SetToList(ChannelIndices(X))

\* line 50: list(channel_indices.difference(channel_indices_to_keep))
InitialPruneList(X, cl) == SetToList(ChannelIndices(X) \ KeepSet(cl))

\* a truncation that keeps the last k entries
TruncateTail(p, k) == SubSeq(p, Len(p) - k + 1, Len(p))

\* line 57: channel_indices_to_prune[:nb_of_clusters]
Truncate(p, k) == SliceTo(p, k)

\* a fill that stops one short
FillShortByOne(p, shuffled, diff) == p \o SubSeq(shuffled, 1, diff - 1)

\* a fill that samples with replacement
FillWithReplacement(p, shuffled, diff) ==
    p \o [i \in 1..diff |-> shuffled[1]]

\* lines 63-64: append shuffled[i] for i in range(diff), diff <= len(shuffled)
Fill(p, shuffled, diff) == p \o SubSeq(shuffled, 1, diff)

-----------------------------------------------------------------------------
Init ==
    /\ layer_weights \in Tensors
    /\ target \in -1..(MaxN + 1)
    /\ pc = "get_weights"
    /\ layer_weight_mtx = None
    /\ mtx_buffer = None
    /\ rng = <<>>
    /\ nb_channels = None
    /\ nb_of_clusters = None
    /\ reshaped = <<>>
    /\ cluster_centers = <<>>
    /\ closest = <<>>
    /\ keep = <<>>
    /\ prune = <<>>
    /\ stdout = <<>>
    /\ jobs = <<>>
    /\ ret = None
    /\ error = "none"

\* an accessor that hands out the kernel's own memory
GetWeightsBufferAlias == "kernel"

\* line 29: layer.get_weights() returns the weights as new NumPy arrays
GetWeightsBuffer == "fresh"

\* lines 29-30: a copy of the kernel, and the unpacking of its shape
GetWeights ==
    /\ pc = "get_weights"
    /\ layer_weight_mtx' = layer_weights
    /\ mtx_buffer' = GetWeightsBuffer
    /\ IF Len(layer_weights.shape) # 4
       THEN /\ pc' = "raised"
            /\ error' = "unpack"
            /\ UNCHANGED nb_channels
       ELSE /\ pc' = "init_kmeans"
            /\ nb_channels' = layer_weights.shape[4]
            /\ UNCHANGED error
    /\ UNCHANGED <<layer_weights, target, rng, nb_of_clusters, reshaped,
                   cluster_centers, closest, keep, prune, stdout, jobs, ret>>

\* lines 33-34: K from the helper; the KMeans constructor only stores it
InitKMeans ==
    /\ pc = "init_kmeans"
    /\ nb_of_clusters' = CalculateNumberOfChannelsToKeep(target, nb_channels)
    /\ pc' = "reshape"
    /\ UNCHANGED <<layer_weights, target, layer_weight_mtx, mtx_buffer, rng,
                   nb_channels,
                   reshaped, cluster_centers, closest, keep, prune, stdout,
                   jobs, ret, error>>

\* lines 38-40: the flattened matrix, fuzzed in place. transpose and reshape
\* give a view of layer_weight_mtx (the three leading axes merge without a
\* copy), so the fuzz lands in the memory of layer_weight_mtx, and in the
\* kernel exactly when that memory is the kernel's. The fuzz draws from the
\* random state.
ReshapeAndFuzz ==
    /\ pc = "reshape"
    /\ \E fz \in FuzzChoices(Reshape(layer_weight_mtx, nb_channels)) :
          reshaped' = ApplyFuzz(Reshape(layer_weight_mtx, nb_channels), fz)
    /\ layer_weight_mtx' = WriteThrough(layer_weight_mtx, reshaped')
    /\ layer_weights' = IF mtx_buffer = "kernel"
                        THEN WriteThrough(layer_weights, reshaped')
                        ELSE layer_weights
    /\ rng' = Append(rng, "fuzz")
    /\ pc' = "fit"
    /\ UNCHANGED <<target, mtx_buffer, nb_channels,
                   nb_of_clusters, cluster_centers, closest, keep, prune,
                   stdout, jobs, ret, error>>

\* line 41: kmeans.fit raises unless 1 <= n_clusters <= n_samples; otherwise
\* it leaves n_clusters centres, the centroids of some labelling of the rows.
\* With random_state left at None it draws from numpy's global random state;
\* whether a rejected call has drawn before it raises is not fixed.
Fit ==
    /\ pc = "fit"
    /\ IF nb_of_clusters < 1 \/ nb_of_clusters > Len(reshaped)
       THEN /\ pc' = "raised"
            /\ error' = "fit"
            /\ rng' \in {rng, Append(rng, "kmeans")}
            /\ UNCHANGED cluster_centers
       ELSE /\ \E labels \in [1..Len(reshaped) -> 1..nb_of_clusters] :
                 \E moved \in [EmptyClusters(labels, nb_of_clusters)
                                  -> 1..Len(reshaped)] :
                    cluster_centers' =
                       Centres(reshaped, nb_of_clusters, labels, moved)
            /\ rng' = Append(rng, "kmeans")
            /\ pc' = "closest"
            /\ UNCHANGED error
    /\ UNCHANGED <<layer_weights, target, layer_weight_mtx, mtx_buffer,
                   nb_channels, nb_of_clusters, reshaped, closest, keep,
                   prune, stdout, jobs, ret>>

\* lines 45-51: representatives, keep list and initial prune list
ClosestPoints ==
    /\ pc = "closest"
    /\ closest' = PairwiseDistancesArgmin(cluster_centers, reshaped)
    /\ prune' = InitialPruneList(reshaped, closest')
    /\ keep' = SetToList(KeepSet(closest'))
    /\ pc' = "reconcile"
    /\ UNCHANGED <<layer_weights, target, layer_weight_mtx, mtx_buffer, rng,
                   nb_channels,
                   nb_of_clusters, reshaped, cluster_centers, stdout, jobs,
                   ret, error>>

\* line 62: np.random.shuffle swaps from the last position down to the second,
\* one draw per position, so a list of at most one entry draws nothing
ShuffleDraws(state, list) ==
    IF Len(list) > 1 THEN Append(state, "shuffle") ELSE state

\* lines 54-64: count reconciliation
Reconcile ==
    /\ pc = "reconcile"
    /\ IF Len(prune) > nb_of_clusters
       THEN /\ stdout' = stdout \o <<"greater", "discarding">>
            /\ prune' = Truncate(prune, nb_of_clusters)
            /\ pc' = "guard"
            /\ UNCHANGED <<keep, rng, error>>
       ELSE IF Len(prune) < nb_of_clusters
       THEN LET diff == nb_of_clusters - Len(prune) IN
            /\ stdout' = stdout \o <<"less", "adding">>
            /\ keep' \in Permutations(keep)
            /\ rng' = ShuffleDraws(rng, keep)
            /\ IF diff > Len(keep)
               THEN /\ prune' = prune \o keep'
                    /\ pc' = "raised"
                    /\ error' = "index"
               ELSE /\ prune' = Fill(prune, keep', diff)
                    /\ pc' = "guard"
                    /\ UNCHANGED error
       ELSE /\ pc' = "guard"
            /\ UNCHANGED <<keep, prune, stdout, rng, error>>
    /\ UNCHANGED <<layer_weights, target, layer_weight_mtx, mtx_buffer,
                   nb_channels,
                   nb_of_clusters, reshaped, cluster_centers, closest, jobs,
                   ret>>

\* lines 66-69: the final count guard
CountGuard ==
    /\ pc = "guard"
    /\ IF Len(prune) # nb_of_clusters
       THEN /\ pc' = "raised"
            /\ error' = "count"
       ELSE /\ pc' = "add_job"
            /\ UNCHANGED error
    /\ UNCHANGED <<layer_weights, target, layer_weight_mtx, mtx_buffer, rng,
                   nb_channels,
                   nb_of_clusters, reshaped, cluster_centers, closest, keep,
                   prune, stdout, jobs, ret>>

\* lines 72-74: the deferred deletion job and the return value
AddJob ==
    /\ pc = "add_job"
    /\ jobs' = Append(jobs, [op |-> "delete_channels", layer |-> LayerName,
                             channels |-> prune])
    /\ ret' = Len(prune)
    /\ pc' = "returned"
    /\ UNCHANGED <<layer_weights, target, layer_weight_mtx, mtx_buffer, rng,
                   nb_channels,
                   nb_of_clusters, reshaped, cluster_centers, closest, keep,
                   prune, stdout, error>>

Next ==
    \/ GetWeights
    \/ InitKMeans
    \/ ReshapeAndFuzz
    \/ Fit
    \/ ClosestPoints
    \/ Reconcile
    \/ CountGuard
    \/ AddJob

Spec == Init /\ [][Next]_vars

-----------------------------------------------------------------------------
(* Vocabulary of the properties *)

Terminated == pc \in {"returned", "raised"}

Is4D == Len(layer_weights.shape) = 4

\* K and N are bound once lines 29-34 have run
KnowsK == Is4D /\ pc \notin {"get_weights", "init_kmeans"}

\* the clustering call, line 41, has been entered or lies behind
AtOrPastFit == pc \in {"fit", "closest", "reconcile", "guard", "add_job",
                       "returned"} \/ error \in {"fit", "index", "count"}

\* the representatives are known once lines 45-51 have run
KnowsReps == pc \in {"reconcile", "guard", "add_job", "returned"}
                \/ error \in {"index", "count"}

Universe == 0..(nb_channels - 1)
Reps == Range(closest)
InitialPrune == SetToList(Universe \ Reps)

Distinct(s) == \A i, j \in 1..Len(s) : i # j => s[i] # s[j]

Submitted == jobs[1].channels

-----------------------------------------------------------------------------
\* C1: for every N and every K with 0 <= K <= N and every clustering outcome,
\* the call submits a prune list of exactly K distinct indices of [0, N) and
\* returns K.
C1_ExactCountForAllValidK ==
    (Terminated /\ Is4D /\ nb_of_clusters \in 0..nb_channels)
        => /\ pc = "returned"
           /\ Len(jobs) = 1
           /\ Len(Submitted) = nb_of_clusters
           /\ Distinct(Submitted)
           /\ Range(Submitted) \subseteq Universe
           /\ ret = nb_of_clusters

\* C2: with K = 0 the call yields an empty prune list, whatever the tensor
\* holds.
C2_ZeroTargetYieldsEmptyList ==
    (Terminated /\ Is4D /\ nb_of_clusters = 0)
        => /\ pc = "returned"
           /\ ret = 0
           /\ \A i \in 1..Len(jobs) : jobs[i].channels = <<>>

\* C4: a precondition violation (K < 0, K > N, a tensor that is not 4-D) is
\* rejected with an error before the clustering call is entered, and no job
\* is submitted.
PreconditionViolated ==
    \/ ~Is4D
    \/ KnowsK /\ (nb_of_clusters < 0 \/ nb_of_clusters > nb_channels)

C4_RejectedBeforeClustering ==
    PreconditionViolated
        => /\ ~AtOrPastFit
           /\ jobs = <<>>
           /\ Terminated => pc = "raised"

-----------------------------------------------------------------------------
\* C5: when the initial prune set has at least K entries (no shortfall), the
\* submitted list and the set of representatives are disjoint.
C5_RepresentativesProtected ==
    (pc = "returned" /\ Len(InitialPrune) >= nb_of_clusters)
        => Range(Submitted) \cap Reps = {}

\* two centroids share their nearest row, and the complement has exactly K
\* entries
C5_Witness ==
    /\ pc = "returned"
    /\ nb_of_clusters >= 2
    /\ Len(InitialPrune) = nb_of_clusters
    /\ Cardinality(Reps) < nb_of_clusters
    /\ Len(Submitted) = nb_of_clusters

\* C6: an invocation leaves the layer's weight tensor unchanged, the fuzz
\* touching only the derived flattened matrix, and its only effect on outside
\* state (the layer, the surgeon, the output stream, the random state) is the
\* submission of one delete_channels job for that layer.
C6_OnlyEffectIsTheJob ==
    [][/\ layer_weights' = layer_weights
       /\ pc = "reshape" => layer_weight_mtx' = layer_weight_mtx
       /\ stdout' = stdout
       /\ rng' = rng
       /\ jobs' # jobs =>
            /\ jobs = <<>>
            /\ pc' = "returned"
            /\ jobs' = <<[op |-> "delete_channels", layer |-> LayerName,
                          channels |-> prune]>>
       /\ pc' = "returned" => Len(jobs') = 1]_vars

\* C6, amended: the layer's weight tensor never changes, the fuzz being
\* written into the array get_weights returned, of which the flattened matrix
\* is a view; the surgeon receives exactly one delete_channels job for that
\* layer on return and none otherwise; the output stream changes only by the
\* two lines of the reconciliation branch taken; the random state changes
\* only by the draws of the fuzz, of kmeans.fit and of the shortfall shuffle
\* of a keep list of more than one entry.
C6_Frame ==
    [][/\ layer_weights' = layer_weights
       /\ pc = "reshape" =>
            /\ reshaped' = Reshape(layer_weight_mtx', nb_channels)
            /\ mtx_buffer = "fresh"
       /\ jobs' # jobs =>
            /\ jobs = <<>>
            /\ pc' = "returned"
            /\ jobs' = <<[op |-> "delete_channels", layer |-> LayerName,
                          channels |-> prune]>>
       /\ pc' = "returned" => Len(jobs') = 1
       /\ stdout' # stdout =>
            /\ pc = "reconcile"
            /\ \/ /\ Len(prune) > nb_of_clusters
                  /\ stdout' = stdout \o <<"greater", "discarding">>
               \/ /\ Len(prune) < nb_of_clusters
                  /\ stdout' = stdout \o <<"less", "adding">>
       /\ rng' # rng =>
            \/ pc = "reshape" /\ rng' = Append(rng, "fuzz")
            \/ pc = "fit" /\ rng' = Append(rng, "kmeans")
            \/ /\ pc = "reconcile"
               /\ Len(prune) < nb_of_clusters
               /\ Len(keep) > 1
               /\ rng' = Append(rng, "shuffle")]_vars

C6_Witness ==
    /\ pc = "returned"
    /\ Len(jobs) = 1
    /\ layer_weight_mtx # layer_weights
    /\ reshaped = Reshape(layer_weight_mtx, nb_channels)
    /\ stdout = <<"less", "adding">>
    /\ rng = <<"fuzz", "kmeans", "shuffle">>

\* C7: for 0 < K <= N and every clustering outcome the prune list that
\* reaches the final guard has length K, so the guard's error never occurs.
C7_GuardNeverFires ==
    /\ error # "count"
    /\ pc = "guard" => Len(prune) = nb_of_clusters

C7_Witness ==
    /\ pc = "add_job"
    /\ stdout = <<"less", "adding">>
    /\ nb_of_clusters < nb_channels
    /\ Len(prune) = nb_of_clusters

\* C8: when the initial prune set has more than K entries, the submitted list
\* is the first K entries of the initial prune list in their order; the
\* entries beyond K are not submitted and no representative is.
C8_SurplusTruncatedToFirstK ==
    (pc = "returned" /\ Len(InitialPrune) > nb_of_clusters)
        => /\ Submitted = SubSeq(InitialPrune, 1, nb_of_clusters)
           /\ \A i \in (nb_of_clusters + 1)..Len(InitialPrune) :
                 InitialPrune[i] \notin Range(Submitted)
           /\ Range(Submitted) \cap Reps = {}

C8_Witness ==
    /\ pc = "returned"
    /\ Len(InitialPrune) > nb_of_clusters
    /\ stdout = <<"greater", "discarding">>
    /\ Len(Submitted) >= 1
    /\ InitialPrune[Len(InitialPrune)] \notin Range(Submitted)

\* C9: when the initial prune set has fewer than K entries, the submitted
\* list is the whole initial prune list followed by K - |initial prune set|
\* indices that are pairwise distinct, representatives, and not in the
\* initial prune list.
C9_ShortfallFilledFromKeepSet ==
    (pc = "returned" /\ Len(InitialPrune) < nb_of_clusters)
        => LET n0 == Len(InitialPrune)
               added == SubSeq(Submitted, n0 + 1, Len(Submitted))
           IN /\ SubSeq(Submitted, 1, n0) = InitialPrune
              /\ Len(added) = nb_of_clusters - n0
              /\ Distinct(added)
              /\ Range(added) \subseteq Reps
              /\ Range(added) \cap Range(InitialPrune) = {}

\* a shortfall in which the fill takes some, not all, of the representatives
C9_Witness ==
    /\ pc = "returned"
    /\ stdout = <<"less", "adding">>
    /\ Len(InitialPrune) >= 1
    /\ nb_of_clusters - Len(InitialPrune) >= 1
    /\ Cardinality(Reps) > nb_of_clusters - Len(InitialPrune)

\* C10: for 0 < K <= N and every clustering outcome the keep list has between
\* 1 and K entries, and under shortfall the number of indices to add is at
\* most the length of the keep list, so the fill loop never indexes past it.
C10_FillStaysInsideKeepList ==
    /\ error # "index"
    /\ (KnowsReps /\ 0 < nb_of_clusters /\ nb_of_clusters <= nb_channels)
          => /\ Len(keep) >= 1
             /\ Len(keep) <= nb_of_clusters
             /\ Range(keep) = Reps
             /\ pc = "reconcile" /\ Len(prune) < nb_of_clusters
                   => nb_of_clusters - Len(prune) <= Len(keep)

C10_Witness ==
    /\ pc = "reconcile"
    /\ Len(prune) < nb_of_clusters
    /\ nb_of_clusters - Len(prune) = Len(keep)
    /\ Len(keep) >= 2

====
